---- MODULE Spec2Model ----
(***************************************************************************)
(* Model of pop3extra.go (package pop3): the helper operations UIDL,       *)
(* UidlAll, TOP, GetInfo and GetList layered on the base POP3 client.      *)
(*                                                                         *)
(* Strings are sequences of one-character strings, so that strings.Fields, *)
(* strconv.Atoi and strings.Join are computed and not assumed.  The base   *)
(* client (Cmd, ReadLines, ListAll) and the header parser are the          *)
(* environment: each call of them is a nondeterministic choice among the   *)
(* outcomes their contract allows.                                         *)
(***************************************************************************)
EXTENDS Integers, Sequences, FiniteSets, TLC

\* ------------------------------------------------------------------ bounds

\* Largest message number of a mailbox listing (so at most MaxMsg messages).
MaxMsg == 4
\* Largest number of lines in a multi-line UIDL response.
MaxLines == 2

\* --------------------------------------------------------------- constants

\* GetInfo asks TOP for the first 120 lines.
TopLines == 120

\* ------------------------------------------------------------ text helpers

Digits == {"0", "1", "2", "3", "4", "5", "6", "7", "8", "9"}

DigitVal(c) ==
    CASE c = "0" -> 0 [] c = "1" -> 1 [] c = "2" -> 2 [] c = "3" -> 3
      [] c = "4" -> 4 [] c = "5" -> 5 [] c = "6" -> 6 [] c = "7" -> 7
      [] c = "8" -> 8 [] c = "9" -> 9

\* unicode.IsSpace restricted to the characters the model uses.
IsSpace(c) == c \in {" ", "\t"}

RECURSIVE FieldsAcc(_, _, _)
FieldsAcc(s, cur, acc) ==
    IF s = <<>>
    THEN IF cur = <<>> THEN acc ELSE Append(acc, cur)
    ELSE IF IsSpace(Head(s))
         THEN FieldsAcc(Tail(s), <<>>, IF cur = <<>> THEN acc ELSE Append(acc, cur))
         ELSE FieldsAcc(Tail(s), Append(cur, Head(s)), acc)

\* strings.Fields: the maximal runs of non-space characters, in order.
Fields(s) == FieldsAcc(s, <<>>, <<>>)

\* The digits of an Atoi argument, after its optional sign.
AtoiBody(f) == IF f # <<>> /\ Head(f) \in {"+", "-"} THEN Tail(f) ELSE f

\* strconv.Atoi succeeds on an optional sign followed by one or more digits.
AtoiOk(f) ==
    /\ AtoiBody(f) # <<>>
    /\ \A k \in 1..Len(AtoiBody(f)) : AtoiBody(f)[k] \in Digits

RECURSIVE DecVal(_, _)
DecVal(ds, acc) ==
    IF ds = <<>> THEN acc ELSE DecVal(Tail(ds), 10 * acc + DigitVal(Head(ds)))

AtoiVal(f) ==
    IF Head(f) = "-" THEN 0 - DecVal(AtoiBody(f), 0) ELSE DecVal(AtoiBody(f), 0)

RECURSIVE Join(_, _)
\* strings.Join(lines, sep)
Join(ls, sep) ==
    IF ls = <<>> THEN <<>>
    ELSE IF Len(ls) = 1 THEN ls[1]
    ELSE ls[1] \o sep \o Join(Tail(ls), sep)

\* ------------------------------------------------------------ error values

\* nil
NoErr == [stage |-> "nil", at |-> 0]

\* An error value: the stage that failed and where (the position of the
\* failing call in the session trace, or the index of the offending line).
Error(stage, at) == [stage |-> stage, at |-> at]

\* --------------------------------------------------------------- the state

VARIABLES
    pc,       \* position of the running helper: "idle" between calls
    op,       \* the helper the caller invoked last
    argN,     \* GetList's n
    curMsg,   \* TOP's msg
    curN,     \* TOP's n
    lmsgs,    \* GetList: msgs returned by ListAll
    lsizes,   \* GetList: sizes returned by ListAll
    idx,      \* GetList: index i of the header-population loop (1-based)
    lines,    \* the lines the last ReadLines returned
    status,   \* "none" | "running" | "ok" | "err" | "panic"
    err,      \* returned error
    uid,      \* UIDL's result
    msgs,     \* UidlAll's result
    uids,     \* UidlAll's result
    text,     \* TOP's result
    list,     \* GetList's result
    trace,    \* calls made on the session during the current helper call
    alive,    \* the transport still works
    unread,   \* a multi-line block of the last command is not read yet
    block,    \* that block
    stale     \* some call read response data that belonged to another command

vars == <<pc, op, argN, curMsg, curN, lmsgs, lsizes, idx, lines, status, err,
          uid, msgs, uids, text, list, trace, alive, unread, block, stale>>


\* ---------------------------------------------------------- the environment

\* Response lines a server may send for UIDL, as character sequences:
\* "1 a", "2 b", " 2  b ", "1", "", "x a", "x".
LineSet ==
    { <<"1", " ", "a">>, <<"2", " ", "b">>, <<" ", "2", " ", " ", "b", " ">>,
      <<"1">>, <<>>, <<"x", " ", "a">>, <<"x">> }

\* Multi-line UIDL responses.
UidlBlocks == UNION { [1..k -> LineSet] : k \in 0..MaxLines }

\* Multi-line TOP responses: no line, or the two lines "a" and "b".
TopBlocks == { <<>>, << <<"a">>, <<"b">> >> }

\* Message numbers a caller may pass.
MsgArgs == 1..2

\* Line counts a caller may pass to TOP.
TopArgs == {0, TopLines}

\* Sizes a listing may report.
SizeSet == {10, 20}

\* The strictly ascending sequence of the numbers in S.
SeqOf(S) ==
    CHOOSE s \in [1..Cardinality(S) -> S] :
        \A i, j \in 1..Cardinality(S) : i < j => s[i] < s[j]

\* Message-number arrays of ListAll: ascending server order (RFC 1939).
MsgSeqs == { SeqOf(S) : S \in SUBSET (1..MaxMsg) }

\* Size arrays of ListAll.
SizeSeqs == UNION { [1..k -> SizeSet] : k \in 0..MaxMsg }

\* GetList's n, negative, zero, and up to one more than the mailbox holds.
NArgs == (0 - 1)..(MaxMsg + 1)

\* One call on the session, as recorded in the trace.
Event(ev, cmd, m, n, ok, data) ==
    [ev |-> ev, cmd |-> cmd, msg |-> m, n |-> n, ok |-> ok, data |-> data]

\* ------------------------------------------------------------- the helpers

\* parsemail.Email's zero value, and the value ParseHeader builds from a text.
NoEmail == [hdr |-> <<>>]
ParsedEmail(t) == [hdr |-> t]

\* UIDL with the error of Cmd dropped.
UIDLResultSwallow(l, e) ==
    IF e # NoErr THEN [status |-> "ok", err |-> NoErr, uid |-> <<>>]
    ELSE IF Len(Fields(l)) < 2
         THEN [status |-> "panic", err |-> NoErr, uid |-> <<>>]
         ELSE [status |-> "ok", err |-> NoErr, uid |-> Fields(l)[2]]

\* UIDL checking the number of fields and returning an error on a short line.
UIDLResultChecked(l, e) ==
    IF e # NoErr THEN [status |-> "err", err |-> e, uid |-> <<>>]
    ELSE IF Len(Fields(l)) < 2
         THEN [status |-> "err", err |-> Error("shape", 0), uid |-> <<>>]
         ELSE [status |-> "ok", err |-> NoErr, uid |-> Fields(l)[2]]

\* UIDL(msg), given the line and the error Cmd returned.
UIDLResult(l, e) ==
    IF e # NoErr THEN [status |-> "err", err |-> e, uid |-> <<>>]
    ELSE IF Len(Fields(l)) < 2
         THEN [status |-> "panic", err |-> NoErr, uid |-> <<>>]
         ELSE [status |-> "ok", err |-> NoErr, uid |-> Fields(l)[2]]

\* UidlAll after the Cmd: return the error, or go on to ReadLines.
UidlAllAfterCmd(e) == IF e # NoErr THEN "ret" ELSE "read"

\* make([]int, n) and make([]string, n)
ZeroInts(n) == [k \in 1..n |-> 0]
ZeroStrs(n) == [k \in 1..n |-> <<>>]

RECURSIVE UidlLoop(_, _, _, _)
\* The loop of UidlAll over the lines, from line i on.
UidlLoop(ls, i, ms, us) ==
    IF i > Len(ls) THEN [status |-> "ok", err |-> NoErr, msgs |-> ms, uids |-> us]
    ELSE LET fs == Fields(ls[i]) IN
         IF Len(fs) < 1
         THEN [status |-> "panic", err |-> NoErr, msgs |-> <<>>, uids |-> <<>>]
         ELSE IF ~AtoiOk(fs[1])
         THEN [status |-> "err", err |-> Error("atoi", i), msgs |-> ms, uids |-> us]
         ELSE IF Len(fs) < 2
         THEN [status |-> "panic", err |-> NoErr, msgs |-> <<>>, uids |-> <<>>]
         ELSE UidlLoop(ls, i + 1, [ms EXCEPT ![i] = AtoiVal(fs[1])],
                       [us EXCEPT ![i] = fs[2]])

\* UidlAll with the unique ids appended to the slice make() already sized.
UidlParseAppend(ls, e) ==
    IF e # NoErr THEN [status |-> "err", err |-> e, msgs |-> <<>>, uids |-> <<>>]
    ELSE LET r == UidlLoop(ls, 1, ZeroInts(Len(ls)), ZeroStrs(Len(ls))) IN
         IF r.status = "ok"
         THEN [r EXCEPT !.uids = ZeroStrs(Len(ls)) \o r.uids]
         ELSE r

\* UidlAll after ReadLines returned (ls, e).
UidlParse(ls, e) ==
    IF e # NoErr THEN [status |-> "err", err |-> e, msgs |-> <<>>, uids |-> <<>>]
    ELSE UidlLoop(ls, 1, ZeroInts(Len(ls)), ZeroStrs(Len(ls)))

\* TOP going on to ReadLines whatever Cmd returned.
TOPAlwaysRead(e) == "read"

\* TOP after the Cmd: return the error, or go on to ReadLines.
TOPAfterCmd(e) == IF e # NoErr THEN "ret" ELSE "read"

\* TOP after ReadLines returned (ls, e).
TOPResult(ls, e) ==
    IF e # NoErr THEN [err |-> e, text |-> <<>>]
    ELSE [err |-> NoErr, text |-> Join(ls, <<"\n">>)]

RECURSIVE CollectLoop(_, _, _, _, _)
\* The collecting loop of GetList, at index i (1-based), newest first.
CollectLoop(ms, ss, n, i, acc) ==
    IF i < 1 THEN acc
    ELSE LET item == [Size |-> ss[i], MsgNum |-> ms[i], Email |-> NoEmail]
             acc2 == Append(acc, item)
         IN IF n > 0 /\ Len(ms) - i + 1 >= n
            THEN acc2
            ELSE CollectLoop(ms, ss, n, i - 1, acc2)

RECURSIVE CollectLateBreak(_, _, _, _, _)
\* Collect with the break test off by one (num - i > n).
CollectLateBreak(ms, ss, n, i, acc) ==
    IF i < 1 THEN acc
    ELSE LET item == [Size |-> ss[i], MsgNum |-> ms[i], Email |-> NoEmail]
             acc2 == Append(acc, item)
         IN IF n > 0 /\ Len(ms) - i + 1 > n
            THEN acc2
            ELSE CollectLateBreak(ms, ss, n, i - 1, acc2)

CollectOffByOne(ms, ss, n) == CollectLateBreak(ms, ss, n, Len(ms), <<>>)

\* Collect with the size taken from the other end of the sizes array.
CollectWrongSize(ms, ss, n) ==
    LET good == CollectLoop(ms, ss, n, Len(ms), <<>>) IN
    [k \in 1..Len(good) |-> [good[k] EXCEPT !.Size = ss[k]]]

Collect(ms, ss, n) == CollectLoop(ms, ss, n, Len(ms), <<>>)

\* GetList up to the header-population loop, given what ListAll returned.
GetListCollect(ms, ss, e, n) ==
    IF e # NoErr THEN [err |-> e, list |-> <<>>]
    ELSE IF Len(ms) # Len(ss) THEN [err |-> Error("mismatch", 0), list |-> <<>>]
    ELSE [err |-> NoErr, list |-> Collect(ms, ss, n)]

\* The header-population loop walking the list from its end.
InfoMsgBackward(lst, i) == lst[Len(lst) + 1 - i].MsgNum

\* The message GetList's i-th header fetch asks for.
InfoMsg(lst, i) == lst[i].MsgNum

\* GetInfo's TOP request for a message.
GetInfoTop(m) == [msg |-> m, n |-> TopLines]

\* The loop going on to the next item after a failed GetInfo.
AfterGetInfoContinue(e, i, len) ==
    IF i < len THEN "next" ELSE IF e # NoErr THEN "fail" ELSE "done"

\* The header-population loop after GetInfo returned e for item i of len
\* items: return the error, fetch the next item, or return the list.
AfterGetInfo(e, i, len) ==
    IF e # NoErr THEN "fail" ELSE IF i < len THEN "next" ELSE "done"

\* GetList handing back a nil list with the error.
GetListOnErrorNil(lst, e) == [list |-> <<>>, err |-> e]

\* What GetList hands back when GetInfo failed: its named results as they stand.
GetListOnError(lst, e) == [list |-> lst, err |-> e]


\* -------------------------------------------------- the session primitives

\* What Cmd can do: a +OK status line, a -ERR status line, a transport error.
CmdOutcomes == IF alive THEN {"ok", "neg", "io"} ELSE {"io"}

\* What ReadLines can do: read the block to its end, or a transport error.
ReadOutcomes == IF alive THEN {"ok", "io"} ELSE {"io"}

\* The error Cmd returns, as the at-th call of the trace.
CmdErr(o, at) == IF o = "ok" THEN NoErr ELSE Error("cmd", at)

\* The error ReadLines returns, as the at-th call of the trace.
ReadErr(o, at) == IF o = "ok" THEN NoErr ELSE Error("read", at)

\* The lines ReadLines hands back.
ReadData(o) == IF o = "ok" /\ unread THEN block ELSE <<>>

\* The session after ReadLines.
ReadSession(o) ==
    /\ alive' = (o = "ok")
    /\ unread' = IF o = "ok" THEN FALSE ELSE unread
    /\ block' = IF o = "ok" THEN <<>> ELSE block
    /\ stale' = (stale \/ (o = "ok" /\ ~unread))

\* The session after Cmd sent a multi-line command answered by blk.  Cmd reads
\* one line: with a block of an earlier command still unread, that line is not
\* the status line of its own command.
CmdSession(o, blk) ==
    /\ alive' = (o # "io")
    /\ unread' = (unread \/ o = "ok")
    /\ block' = IF o = "ok" THEN block \o blk ELSE block
    /\ stale' = (stale \/ (unread /\ o # "io"))

\* ---------------------------------------------------------------- actions

Init ==
    /\ pc = "idle" /\ op = "none" /\ argN = 0 /\ curMsg = 0 /\ curN = 0
    /\ lmsgs = <<>> /\ lsizes = <<>> /\ idx = 0 /\ lines = <<>>
    /\ status = "none" /\ err = NoErr /\ uid = <<>> /\ msgs = <<>>
    /\ uids = <<>> /\ text = <<>> /\ list = <<>> /\ trace = <<>>
    /\ alive = TRUE /\ unread = FALSE /\ block = <<>> /\ stale = FALSE

\* The caller may start a helper: none is running and the program lives.
CanCall == pc = "idle" /\ status # "panic"

\* The calls a caller may make: UIDL(msg), UidlAll(), TOP(msg, n), GetList(n).
Calls ==
    { [op |-> "UIDL", msg |-> m, n |-> 0] : m \in MsgArgs }
    \cup { [op |-> "UidlAll", msg |-> 0, n |-> 0] }
    \cup { [op |-> "TOP", msg |-> m, n |-> n] : m \in MsgArgs, n \in TopArgs }
    \cup { [op |-> "GetList", msg |-> 0, n |-> n] : n \in NArgs }

\* Where a helper starts.
StartOf(o) ==
    CASE o = "UIDL" -> "uidl_cmd" [] o = "UidlAll" -> "uidlall_cmd"
      [] o = "TOP" -> "top_cmd" [] o = "GetList" -> "list"

\* The caller invokes a helper on the session: its results start as zero values.
Call ==
    /\ CanCall
    /\ \E c \in Calls :
         /\ op' = c.op /\ pc' = StartOf(c.op)
         /\ curMsg' = c.msg
         /\ curN' = IF c.op = "TOP" THEN c.n ELSE 0
         /\ argN' = IF c.op = "GetList" THEN c.n ELSE 0
         /\ trace' = <<>> /\ lines' = <<>>
         /\ status' = "running" /\ err' = NoErr
         /\ uid' = <<>> /\ msgs' = <<>> /\ uids' = <<>> /\ text' = <<>> /\ list' = <<>>
         /\ lmsgs' = <<>> /\ lsizes' = <<>> /\ idx' = 0
         /\ UNCHANGED <<alive, unread, block, stale>>

\* UIDL(msg): one Cmd, then the unique id from its status line.
UIDL ==
    /\ pc = "uidl_cmd"
    /\ \E o \in CmdOutcomes, l \in LineSet :
         LET r == UIDLResult(l, CmdErr(o, 1)) IN
         /\ trace' = <<Event("cmd", "UIDL", curMsg, 0, o = "ok", <<>>)>>
         /\ lines' = IF o = "ok" THEN <<l>> ELSE <<>>
         /\ status' = r.status /\ err' = r.err /\ uid' = r.uid
         /\ alive' = (o # "io") /\ stale' = (stale \/ (unread /\ o # "io"))
         /\ pc' = "idle"
         /\ UNCHANGED <<op, argN, curMsg, curN, lmsgs, lsizes, idx, msgs, uids,
                        text, list, unread, block>>

\* UidlAll(): the Cmd.
UidlAllCmd ==
    /\ pc = "uidlall_cmd"
    /\ \E o \in CmdOutcomes, blk \in UidlBlocks :
         LET e == CmdErr(o, 1) IN
         /\ trace' = <<Event("cmd", "UIDL", 0, 0, o = "ok", <<>>)>>
         /\ CmdSession(o, blk)
         /\ UNCHANGED <<op, argN, curMsg, curN, lmsgs, lsizes, idx, lines, uid,
                        msgs, uids, text, list>>
         /\ IF UidlAllAfterCmd(e) = "ret"
            THEN /\ pc' = "idle" /\ err' = e
                 /\ status' = IF e = NoErr THEN "ok" ELSE "err"
            ELSE pc' = "uidl_read" /\ status' = "running" /\ err' = NoErr

\* UidlAll(): ReadLines and the loop over the lines.
UidlAllRead ==
    /\ pc = "uidl_read"
    /\ \E o \in ReadOutcomes :
         LET ls == ReadData(o)
             r == UidlParse(ls, ReadErr(o, Len(trace) + 1))
         IN
         /\ trace' = Append(trace, Event("read", "", 0, 0, o = "ok", ls))
         /\ ReadSession(o)
         /\ lines' = ls
         /\ status' = r.status /\ err' = r.err /\ msgs' = r.msgs /\ uids' = r.uids
         /\ pc' = "idle"
         /\ UNCHANGED <<op, argN, curMsg, curN, lmsgs, lsizes, idx, uid, text, list>>

\* GetList's loop after GetInfo returned (em, e) for item idx.
InfoReturned(em, e) ==
    LET nxt == AfterGetInfo(e, idx, Len(list))
        lst == IF e = NoErr THEN [list EXCEPT ![idx].Email = em] ELSE list
    IN
    CASE nxt = "fail" ->
           /\ pc' = "idle" /\ status' = "err"
           /\ err' = GetListOnError(lst, e).err
           /\ list' = GetListOnError(lst, e).list
           /\ UNCHANGED <<idx, curMsg, curN>>
      [] nxt = "next" ->
           /\ pc' = "top_cmd" /\ list' = lst /\ idx' = idx + 1
           /\ curMsg' = GetInfoTop(InfoMsg(lst, idx + 1)).msg
           /\ curN' = GetInfoTop(InfoMsg(lst, idx + 1)).n
           /\ UNCHANGED <<status, err>>
      [] nxt = "done" ->
           /\ pc' = "idle" /\ status' = "ok" /\ err' = NoErr /\ list' = lst
           /\ UNCHANGED <<idx, curMsg, curN>>

\* TOP returned r = (text, err), to the caller or to GetInfo inside GetList.
TopReturned(r) ==
    IF op = "TOP"
    THEN /\ pc' = "idle" /\ err' = r.err /\ text' = r.text
         /\ status' = IF r.err = NoErr THEN "ok" ELSE "err"
         /\ UNCHANGED <<list, idx, curMsg, curN>>
    ELSE IF r.err # NoErr
         THEN InfoReturned(NoEmail, r.err) /\ UNCHANGED text
         ELSE /\ pc' = "info_parse" /\ text' = r.text
              /\ UNCHANGED <<status, err, list, idx, curMsg, curN>>

\* TOP: the Cmd.
TopCmd ==
    /\ pc = "top_cmd"
    /\ \E o \in CmdOutcomes, blk \in TopBlocks :
         LET e == CmdErr(o, Len(trace) + 1) IN
         /\ trace' = Append(trace, Event("cmd", "TOP", curMsg, curN, o = "ok", <<>>))
         /\ CmdSession(o, blk)
         /\ IF TOPAfterCmd(e) = "ret"
            THEN TopReturned([err |-> e, text |-> <<>>])
            ELSE /\ pc' = "top_read"
                 /\ UNCHANGED <<status, err, text, list, idx, curMsg, curN>>
         /\ UNCHANGED <<op, argN, lmsgs, lsizes, lines, uid, msgs, uids>>

\* TOP: ReadLines and the join.
TopRead ==
    /\ pc = "top_read"
    /\ \E o \in ReadOutcomes :
         LET ls == ReadData(o) IN
         /\ trace' = Append(trace, Event("read", "", curMsg, 0, o = "ok", ls))
         /\ ReadSession(o)
         /\ lines' = ls
         /\ TopReturned(TOPResult(ls, ReadErr(o, Len(trace) + 1)))
         /\ UNCHANGED <<op, argN, lmsgs, lsizes, uid, msgs, uids>>

\* GetInfo inside GetList: ParseHeader on the text TOP returned.
ParseHeader ==
    /\ pc = "info_parse"
    /\ \E ok \in BOOLEAN :
         /\ trace' = Append(trace, Event("parse", "", curMsg, 0, ok, <<>>))
         /\ InfoReturned(ParsedEmail(text),
                         IF ok THEN NoErr ELSE Error("header", Len(trace) + 1))
         /\ UNCHANGED <<op, argN, lmsgs, lsizes, lines, uid, msgs, uids, text,
                        alive, unread, block, stale>>

\* GetList(n): ListAll, the length check and the collecting loop.
GetList ==
    /\ pc = "list"
    /\ \E o \in CmdOutcomes, io \in BOOLEAN, ms \in MsgSeqs, ss \in SizeSeqs :
         LET good == o = "ok" /\ ~io
             r == GetListCollect(ms, ss, IF good THEN NoErr ELSE Error("list", 1),
                                 argN)
         IN
         /\ (~good => ms = <<>> /\ ss = <<>>)
         /\ (io => o = "ok")
         /\ trace' = <<Event("list", "LIST", 0, 0, good, <<>>)>>
         /\ lmsgs' = ms /\ lsizes' = ss
         /\ alive' = (o # "io" /\ ~io)
         /\ stale' = (stale \/ (unread /\ o # "io"))
         /\ list' = r.list
         /\ IF r.err = NoErr /\ r.list # <<>>
            THEN /\ pc' = "top_cmd" /\ status' = "running" /\ err' = NoErr
                 /\ idx' = 1
                 /\ curMsg' = GetInfoTop(InfoMsg(r.list, 1)).msg
                 /\ curN' = GetInfoTop(InfoMsg(r.list, 1)).n
            ELSE /\ pc' = "idle" /\ err' = r.err
                 /\ status' = IF r.err = NoErr THEN "ok" ELSE "err"
                 /\ idx' = 0 /\ curMsg' = 0 /\ curN' = 0
         /\ UNCHANGED <<op, argN, lines, uid, msgs, uids, text, unread, block>>

Next ==
    \/ Call
    \/ UIDL
    \/ UidlAllCmd
    \/ UidlAllRead
    \/ TopCmd
    \/ TopRead
    \/ ParseHeader
    \/ GetList

Spec == Init /\ [][Next]_vars


\* ------------------------------------------------------------ the claims

\* A helper has returned to the caller (it did not panic).
Returned(o) == op = o /\ pc = "idle" /\ status \in {"ok", "err"}

\* The message numbers of a list of summaries.
MsgNums(lst) == [k \in 1..Len(lst) |-> lst[k].MsgNum]

\* C1: a successful GetList(n) on a listing of m messages returns n summaries
\* when n > 0 and m >= n, all m when n > 0 and m < n, and all m when n <= 0;
\* the summaries are in strictly decreasing message-number order.
C1_GetListCount ==
    (Returned("GetList") /\ status = "ok") =>
        LET m == Len(lmsgs) IN
        /\ (argN > 0 /\ m >= argN) => Len(list) = argN
        /\ (argN > 0 /\ m < argN) => Len(list) = m
        /\ argN <= 0 => Len(list) = m
        /\ \A i, j \in 1..Len(list) : i < j => list[i].MsgNum > list[j].MsgNum

\* GetList(2) on a three-message mailbox returned two summaries.
C1_Witness ==
    /\ Returned("GetList") /\ status = "ok"
    /\ argN = 2 /\ Len(lmsgs) = 3 /\ Len(list) = 2

\* C2: the i-th summary of a successful GetList is the (number, size) pair at
\* index m-1-i of the listing (0-based), so each size stays with its message.
C2_GetListPairs ==
    (Returned("GetList") /\ status = "ok") =>
        \A i \in 1..Len(list) :
            /\ list[i].MsgNum = lmsgs[Len(lmsgs) + 1 - i]
            /\ list[i].Size = lsizes[Len(lmsgs) + 1 - i]

\* Messages 1, 2, 3 of sizes 10, 10, 20: GetList(2) returned (3, 20), (2, 10).
C2_Witness ==
    /\ Returned("GetList") /\ status = "ok" /\ argN = 2
    /\ lmsgs = <<1, 2, 3>> /\ lsizes = <<10, 10, 20>>
    /\ MsgNums(list) = <<3, 2>>
    /\ list[1].Size = 20 /\ list[2].Size = 10

\* C3: when UidlAll returns without error, msgs and uids have the length of
\* the response, and entry i of each comes from response line i.
C3_UidlAllParallel ==
    (Returned("UidlAll") /\ status = "ok") =>
        /\ Len(msgs) = Len(lines) /\ Len(uids) = Len(lines)
        /\ \A i \in 1..Len(lines) :
              /\ Len(Fields(lines[i])) >= 2
              /\ AtoiOk(Fields(lines[i])[1])
              /\ msgs[i] = AtoiVal(Fields(lines[i])[1])
              /\ uids[i] = Fields(lines[i])[2]

\* The response "1 a", " 2  b " came back as msgs 1, 2 and uids "a", "b".
C3_Witness ==
    /\ Returned("UidlAll") /\ status = "ok"
    /\ lines = << <<"1", " ", "a">>, <<" ", "2", " ", " ", "b", " ">> >>
    /\ msgs = <<1, 2>> /\ uids = << <<"a">>, <<"b">> >>

\* C5: UIDL never returns an empty unique id with a nil error: a failed
\* command gives a non-nil error and the id "", and a return without error
\* gives a non-empty id.
C5_UIDLNeverSilent ==
    Returned("UIDL") =>
        /\ ~(uid = <<>> /\ err = NoErr)
        /\ ~trace[1].ok => (status = "err" /\ err # NoErr /\ uid = <<>>)
        /\ err = NoErr => (status = "ok" /\ uid # <<>>)

\* UIDL returned the error of a failed command, with the id "".
C5_Witness ==
    /\ Returned("UIDL") /\ ~trace[1].ok
    /\ status = "err" /\ err = Error("cmd", 1) /\ uid = <<>>


\* The k-th call of the trace sent a command answered by a multi-line block.
MultiCmd(k) ==
    trace[k].ev = "cmd" /\ (trace[k].cmd = "TOP" \/ op = "UidlAll")

\* C9: TOP and UidlAll call ReadLines if and only if the command before it
\* succeeded, and read the whole block; so while the transport works no block
\* stays unread once they are past ReadLines, and no call reads response data
\* of another command.
C9_ReadIffCmdOk ==
    /\ \A k \in 1..Len(trace) :
          trace[k].ev = "read" => (k > 1 /\ MultiCmd(k - 1) /\ trace[k - 1].ok)
    /\ \A k \in 1..Len(trace) :
          (MultiCmd(k) /\ trace[k].ok) =>
              IF k < Len(trace) THEN trace[k + 1].ev = "read"
              ELSE pc \in {"top_read", "uidl_read"}
    /\ (alive /\ pc \notin {"top_read", "uidl_read"}) =>
          (~unread /\ block = <<>>)
    /\ ~stale

\* UidlAll returned a parse error for line 2 after reading its whole block;
\* nothing of the response is left on the session.
C9_Witness ==
    /\ op = "UidlAll" /\ pc = "idle" /\ status = "err" /\ err = Error("atoi", 2)
    /\ Len(trace) = 2 /\ trace[2].ev = "read" /\ Len(trace[2].data) = 2
    /\ alive /\ ~unread /\ block = <<>>

\* The stage an error of a failed call names.
StageOf(ev) ==
    CASE ev = "list" -> "list" [] ev = "cmd" -> "cmd"
      [] ev = "read" -> "read" [] ev = "parse" -> "header"

\* C7: no retries.  Within one GetList call the listing is requested at most
\* once and the header of each message number at most once; in every helper a
\* failed call is the last call made, and the helper returns its error.
C7_NoRetry ==
    /\ op = "GetList" =>
          /\ Cardinality({k \in 1..Len(trace) : trace[k].ev = "list"}) <= 1
          /\ \A m \in 1..MaxMsg :
                Cardinality({k \in 1..Len(trace) :
                               trace[k].ev = "cmd" /\ trace[k].msg = m}) <= 1
          /\ err.stage = "mismatch" => (Len(trace) = 1 /\ pc = "idle")
    /\ \A k \in 1..Len(trace) :
          ~trace[k].ok =>
              /\ k = Len(trace)
              /\ pc = "idle" /\ status = "err"
              /\ err = Error(StageOf(trace[k].ev), k)

\* GetList of two or more messages returned the read error of its first
\* header fetch, having sent nothing after it.
C7_Witness ==
    /\ Returned("GetList") /\ Len(list) >= 2
    /\ Len(trace) = 3 /\ trace[2].ok /\ ~trace[3].ok
    /\ err = Error("read", 3)


\* GetList's listing succeeded with arrays of equal length.
ListingOk ==
    /\ op = "GetList" /\ trace # <<>> /\ trace[1].ok
    /\ Len(lmsgs) = Len(lsizes)

\* The numbers of the newest min(n, m) messages of the listing, newest first
\* (all m when n <= 0).
ExpectedNums ==
    LET m == Len(lmsgs)
        k == IF argN > 0 /\ argN < m THEN argN ELSE m
    IN [j \in 1..k |-> lmsgs[m + 1 - j]]

IsCmd(e) == e.ev = "cmd"

\* The commands sent during the current call, in order.
Fetches == SelectSeq(trace, IsCmd)

\* The statement of C8 as written: once GetList has returned after a good
\* listing, header fetches were issued for exactly the collected summaries.
C8_Original ==
    (Returned("GetList") /\ ListingOk) =>
        [j \in 1..Len(Fetches) |-> Fetches[j].msg] = ExpectedNums

\* C8 (amended): GetList requests the listing once and first; after a good
\* listing it issues TOP <msg> 120 one at a time for the collected summaries in
\* newest-first order, for all of them when no fetch fails and for those up to
\* and including the first failing one otherwise; after a failed listing or a
\* length mismatch it issues no fetch.
C8_FetchOrder ==
    (op = "GetList" /\ pc # "list") =>
        /\ trace[1].ev = "list"
        /\ \A k \in 2..Len(trace) : trace[k].ev # "list"
        /\ IF ListingOk
           THEN /\ Len(Fetches) <= Len(ExpectedNums)
                /\ \A j \in 1..Len(Fetches) :
                      /\ Fetches[j].cmd = "TOP"
                      /\ Fetches[j].msg = ExpectedNums[j]
                      /\ Fetches[j].n = 120
                /\ \A k \in 3..Len(trace) :
                      trace[k].ev = "cmd" =>
                          (trace[k - 1].ev = "parse" /\ trace[k - 1].ok)
                /\ status = "ok" =>
                      /\ Len(Fetches) = Len(ExpectedNums)
                      /\ MsgNums(list) = ExpectedNums
                /\ status = "err" =>
                      /\ Len(Fetches) = idx
                      /\ ~trace[Len(trace)].ok
                      /\ trace[Len(trace)].msg = ExpectedNums[idx]
           ELSE Len(trace) = 1 /\ pc = "idle" /\ status = "err"

\* Of three collected summaries the second fetch failed: two fetches were
\* issued, none for the third.
C8_Witness ==
    /\ Returned("GetList") /\ ListingOk /\ status = "err"
    /\ Len(ExpectedNums) = 3 /\ idx = 2 /\ Len(Fetches) = 2

\* GetList returned the error of a failed GetInfo.
InfoFailed ==
    /\ Returned("GetList") /\ status = "err"
    /\ err.stage \in {"cmd", "read", "header"}

Min(S) == CHOOSE x \in S : \A y \in S : x <= y

\* UidlAll's ReadLines succeeded; lines holds the response.
UidlAllRan ==
    /\ op = "UidlAll" /\ pc = "idle"
    /\ Len(trace) = 2 /\ trace[2].ok

\* The lines whose first field is not a valid integer.
Offending ==
    {i \in 1..Len(lines) :
        Len(Fields(lines[i])) >= 1 /\ ~AtoiOk(Fields(lines[i])[1])}

\* C6: UidlAll returns an error when the command fails, when the read fails,
\* and when the first field of some line is not a valid integer; then the
\* error is the parse error of the first such line.
C6_ParseErrorSurfaces ==
    (op = "UidlAll" /\ pc = "idle") =>
        /\ (\E k \in 1..Len(trace) : ~trace[k].ok) => (status = "err" /\ err # NoErr)
        /\ (UidlAllRan /\ Offending # {}) =>
              (status = "err" /\ err = Error("atoi", Min(Offending)))

\* A line without the unique-id field: empty, or a single integer field.
ShortLine(l) ==
    \/ Fields(l) = <<>>
    \/ Len(Fields(l)) = 1 /\ AtoiOk(Fields(l)[1])

\* A line UidlAll does not get through: fewer than two fields, or a first
\* field that is not an integer.
BadLine(l) ==
    \/ Len(Fields(l)) < 2
    \/ ~AtoiOk(Fields(l)[1])

BadLines == {i \in 1..Len(lines) : BadLine(lines[i])}

\* The statement of C10 as written: UIDL faults on a line of fewer than two
\* fields, and UidlAll faults when any line is empty or a single integer.
C10_Original ==
    /\ (op = "UIDL" /\ pc = "idle" /\ trace[1].ok /\ Len(Fields(lines[1])) < 2)
          => status = "panic"
    /\ (UidlAllRan /\ \E i \in 1..Len(lines) : ShortLine(lines[i]))
          => status = "panic"

\* C10 (amended): UIDL faults (index out of range) exactly when the status
\* line of a successful command has fewer than two fields.  UidlAll faults
\* exactly when the first line it cannot get through is empty or a single
\* integer field; when that line's first field is not an integer it returns
\* the parse error instead.  Neither returns an error about the response shape.
C10_ShortLineFaults ==
    /\ (op = "UIDL" /\ pc = "idle") =>
          /\ status = "panic" <=> (trace[1].ok /\ Len(Fields(lines[1])) < 2)
          /\ status = "err" => err.stage = "cmd"
    /\ UidlAllRan =>
          /\ status = "panic" <=>
                (BadLines # {} /\ ShortLine(lines[Min(BadLines)]))
          /\ status = "err" <=>
                (BadLines # {} /\ ~ShortLine(lines[Min(BadLines)]))
          /\ status = "err" => err = Error("atoi", Min(BadLines))

\* UidlAll read "1 a" and then "1", and faulted on the second line.
C10_Witness ==
    /\ UidlAllRan /\ status = "panic"
    /\ lines = << <<"1", " ", "a">>, <<"1">> >>

====
